---- MODULE Spec2Model ----
(***************************************************************************)
(* Model of machine/asyncio/plugins/decorators.py: the decorator factories *)
(* process, listen_to, respond_to, required_settings (which attach a       *)
(* Metadata record to their target) and on (which registers the target on  *)
(* the module-wide event emitter ee).                                      *)
(*                                                                         *)
(* Strings the code only stores are TLA+ strings.  Strings the code looks  *)
(* into (a regex source, a setting name that could be iterated) are        *)
(* sequences of one-character strings.                                     *)
(***************************************************************************)
EXTENDS Naturals, Sequences, FiniteSets

\* Total number of decorator applications explored.
MaxApps == 2

(***************************************************************************)
(* The objects decorators are applied to: two plain functions and a class  *)
(* with a subclass.  Attribute lookup on a class follows its MRO.          *)
(***************************************************************************)
Targets == {"f", "g", "Base", "Sub"}

NoParent == "<object>"

Parent(t) == IF t = "Sub" THEN "Base" ELSE NoParent

\* Marks the absence of a "metadata" entry in an object's own __dict__.
NoAttr == "<no attribute>"

\* A Metadata instance is identified by the target whose decoration created it.
MetaIds == Targets

PluginActions == [process |-> <<>>, listen_to |-> <<>>, respond_to |-> <<>>]

Metadata == [plugin_actions |-> PluginActions, required_settings |-> <<>>]

(***************************************************************************)
(* Inputs.                                                                 *)
(***************************************************************************)
EventTypes == {"message", "hello"}

Regexes == { <<"h", "i">>, <<"(", "b", ")">>, <<"(">>, <<"b", ")">> }

\* The optional flags argument: <<>> when omitted, <<flags>> when given.
FlagArgs == { <<>>, <<{"MULTILINE"}>> }

EventNames == {"shutdown", "startup"}

Str(chars) == [type |-> "str", value |-> chars]

List(items) == [type |-> "list", value |-> items]

\* An argument that is neither a list nor a str.
Tuple(items) == [type |-> "tuple", value |-> items]

SettingsArgs ==
    { Str(<<"C">>), Str(<<"D", "B">>), List(<< <<"A">>, <<"B">> >>),
      Tuple(<< <<"A">> >>) }

(***************************************************************************)
(* own[t]       the Metadata instance in t's own __dict__, or NoAttr       *)
(* heap[m]      the contents of Metadata instance m                        *)
(* ee[e]        the listeners the emitter holds for event e, in order      *)
(* invoked      the callables called by the most recent emit, in order     *)
(* last, result the most recent decorator application and how it ended     *)
(* nApps        the number of decorator applications so far                *)
(* contrib[t]   history: what the applications to t were given to add      *)
(* registered[e] history: the targets on(e) was applied to, every time     *)
(***************************************************************************)
VARIABLES own, heap, ee, invoked, contrib, registered, last, result, nApps

vars == <<own, heap, ee, invoked, contrib, registered, last, result, nApps>>

\* The program state the decorators read and write.
St == [own |-> own, heap |-> heap, ee |-> ee]

Range(s) == { s[i] : i \in 1..Len(s) }

(***************************************************************************)
(* getattr(f, "metadata", Metadata()): the object's own attribute, else    *)
(* the one found along the MRO, else the freshly constructed default.      *)
(***************************************************************************)
getattr_metadata(o, f) ==
    IF o[f] # NoAttr THEN o[f]
    ELSE IF Parent(f) # NoParent /\ o[Parent(f)] # NoAttr THEN o[Parent(f)]
    ELSE f

\* f.metadata = getattr(f, "metadata", Metadata())
set_metadata(s, f) == [s EXCEPT !.own[f] = getattr_metadata(s.own, f)]

Returned(f) == [outcome |-> "returned", value |-> f]

Raised(e) == [outcome |-> "raised", value |-> e]

\* Variant: an event type already listed is not listed again.
process_decorator_dedup(s, f, slack_event_type) ==
    LET s1 == set_metadata(s, f)
        m  == s1.own[f]
        l  == s1.heap[m].plugin_actions.process
    IN  [own    |-> s1.own,
         heap   |-> IF slack_event_type \in Range(l) THEN s1.heap
                    ELSE [s1.heap EXCEPT ![m].plugin_actions.process =
                                            Append(@, slack_event_type)],
         ee     |-> s1.ee,
         result |-> Returned(f)]

process_decorator(s, f, slack_event_type) ==
    LET s1 == set_metadata(s, f)
        m  == s1.own[f]
    IN  [own    |-> s1.own,
         heap   |-> [s1.heap EXCEPT ![m].plugin_actions.process =
                                        Append(@, slack_event_type)],
         ee     |-> s1.ee,
         result |-> Returned(f)]

(***************************************************************************)
(* re.compile over the alphabet of Regexes: a pattern parses iff its       *)
(* parentheses balance; the compiled pattern keeps the source text and the *)
(* flags, to which re adds UNICODE for str patterns.                       *)
(***************************************************************************)
RECURSIVE re_parse(_, _, _)
re_parse(regex, i, depth) ==
    IF i > Len(regex) THEN depth = 0                      \* else: missing )
    ELSE IF regex[i] = "(" THEN re_parse(regex, i + 1, depth + 1)
    ELSE IF regex[i] = ")"
         THEN depth > 0 /\ re_parse(regex, i + 1, depth - 1)   \* else: unbalanced )
    ELSE re_parse(regex, i + 1, depth)

re_valid(regex) == re_parse(regex, 1, 0)

\* Variant: the flags are not passed on to the compiler.
re_compile_no_flags(regex, flags) == [pattern |-> regex, flags |-> {"UNICODE"}]

re_compile(regex, flags) == [pattern |-> regex, flags |-> flags \cup {"UNICODE"}]

\* flags: re.RegexFlag | int = re.IGNORECASE
default_flags == {"IGNORECASE"}

flags_of(flagArg) == IF flagArg = <<>> THEN default_flags ELSE flagArg[1]

\* Variant: the pattern is stored as given and only compiled when matched.
listen_to_decorator_lazy(s, f, regex, flags) ==
    LET s1 == set_metadata(s, f)
        m  == s1.own[f]
    IN  [own    |-> s1.own,
         heap   |-> [s1.heap EXCEPT ![m].plugin_actions.listen_to =
                                        Append(@, [pattern |-> regex, flags |-> flags])],
         ee     |-> s1.ee,
         result |-> Returned(f)]

listen_to_decorator(s, f, regex, flags) ==
    LET s1 == set_metadata(s, f)
        m  == s1.own[f]
    IN  IF ~re_valid(regex)
        THEN [own |-> s1.own, heap |-> s1.heap, ee |-> s1.ee,
              result |-> Raised("re.error")]
        ELSE [own    |-> s1.own,
              heap   |-> [s1.heap EXCEPT ![m].plugin_actions.listen_to =
                                             Append(@, re_compile(regex, flags))],
              ee     |-> s1.ee,
              result |-> Returned(f)]

\* Variant: the compiled pattern lands in listen_to.
respond_to_decorator_wrong_list(s, f, regex, flags) ==
    LET s1 == set_metadata(s, f)
        m  == s1.own[f]
    IN  IF ~re_valid(regex)
        THEN [own |-> s1.own, heap |-> s1.heap, ee |-> s1.ee,
              result |-> Raised("re.error")]
        ELSE [own    |-> s1.own,
              heap   |-> [s1.heap EXCEPT ![m].plugin_actions.listen_to =
                                             Append(@, re_compile(regex, flags))],
              ee     |-> s1.ee,
              result |-> Returned(f)]

respond_to_decorator(s, f, regex, flags) ==
    LET s1 == set_metadata(s, f)
        m  == s1.own[f]
    IN  IF ~re_valid(regex)
        THEN [own |-> s1.own, heap |-> s1.heap, ee |-> s1.ee,
              result |-> Raised("re.error")]
        ELSE [own    |-> s1.own,
              heap   |-> [s1.heap EXCEPT ![m].plugin_actions.respond_to =
                                             Append(@, re_compile(regex, flags))],
              ee     |-> s1.ee,
              result |-> Returned(f)]

\* Variant: a new listener is put in front of the earlier ones.
add_listener_front(events, event, f) ==
    IF f \in Range(events[event]) THEN events
    ELSE [events EXCEPT ![event] = <<f>> \o @]

\* Variant: a new listener takes the place of the earlier ones.
add_listener_replace(events, event, f) == [events EXCEPT ![event] = <<f>>]

(***************************************************************************)
(* ee.add_listener(event, f) of the pyee emitter: the listeners of an      *)
(* event are kept in an insertion-ordered mapping keyed by the callable,   *)
(* so a callable already registered for the event keeps its place and is   *)
(* not entered a second time.  (pyee first emits "new_listener"; no        *)
(* listener is registered under that name here, so that emit calls none.)  *)
(***************************************************************************)
add_listener(events, event, f) ==
    IF f \in Range(events[event]) THEN events
    ELSE [events EXCEPT ![event] = Append(@, f)]

\* Variant: on attaches a Metadata like the other decorators.
on_decorator_attaching(s, f, event) ==
    LET s1 == set_metadata(s, f)
    IN  [own    |-> s1.own,
         heap   |-> s1.heap,
         ee     |-> add_listener(s1.ee, event, f),
         result |-> Returned(f)]

on_decorator(s, f, event) ==
    [own    |-> s.own,
     heap   |-> s.heap,
     ee     |-> add_listener(s.ee, event, f),
     result |-> Returned(f)]

\* Variant: a str is extended into the list like a list, one character each.
required_settings_decorator_extend_str(s, f_or_cls, settings) ==
    LET s1 == set_metadata(s, f_or_cls)
        m  == s1.own[f_or_cls]
        items == IF settings.type = "str"
                 THEN [i \in 1..Len(settings.value) |-> <<settings.value[i]>>]
                 ELSE settings.value
    IN  [own    |-> s1.own,
         heap   |-> IF settings.type \in {"list", "str"}
                    THEN [s1.heap EXCEPT ![m].required_settings = @ \o items]
                    ELSE s1.heap,
         ee     |-> s1.ee,
         result |-> Returned(f_or_cls)]

required_settings_decorator(s, f_or_cls, settings) ==
    LET s1 == set_metadata(s, f_or_cls)
        m  == s1.own[f_or_cls]
    IN  [own    |-> s1.own,
         heap   |-> IF settings.type = "list"
                    THEN [s1.heap EXCEPT ![m].required_settings = @ \o settings.value]
                    ELSE IF settings.type = "str"
                    THEN [s1.heap EXCEPT ![m].required_settings =
                                             Append(@, settings.value)]
                    ELSE s1.heap,
         ee     |-> s1.ee,
         result |-> Returned(f_or_cls)]

\* ee.emit(event): the listeners of the event are called in their stored order.
emit(events, event) == events[event]

(***************************************************************************)
(* What one application is meant to add to its own target's lists; kept    *)
(* per target as the record of that target's own decorations.              *)
(***************************************************************************)
Contributed(c, t, kind, arg) ==
    CASE kind = "process" ->
             [c EXCEPT ![t].plugin_actions.process = Append(@, arg)]
      [] kind = "listen_to" /\ re_valid(arg.regex) ->
             [c EXCEPT ![t].plugin_actions.listen_to =
                           Append(@, re_compile(arg.regex, flags_of(arg.flags)))]
      [] kind = "respond_to" /\ re_valid(arg.regex) ->
             [c EXCEPT ![t].plugin_actions.respond_to =
                           Append(@, re_compile(arg.regex, flags_of(arg.flags)))]
      [] kind = "required_settings" /\ arg.type = "list" ->
             [c EXCEPT ![t].required_settings = @ \o arg.value]
      [] kind = "required_settings" /\ arg.type = "str" ->
             [c EXCEPT ![t].required_settings = Append(@, arg.value)]
      [] OTHER -> c

Init ==
    /\ own = [t \in Targets |-> NoAttr]
    /\ heap = [m \in MetaIds |-> Metadata]
    /\ ee = [e \in EventNames |-> <<>>]
    /\ invoked = <<>>
    /\ contrib = [t \in Targets |-> Metadata]
    /\ registered = [e \in EventNames |-> <<>>]
    /\ last = [kind |-> "none"]
    /\ result = Returned(NoAttr)
    /\ nApps = 0

\* One decorator application: the program state becomes r, the call ends with r.result.
Apply(r, kind, t, arg) ==
    /\ own' = r.own
    /\ heap' = r.heap
    /\ ee' = r.ee
    /\ contrib' = Contributed(contrib, t, kind, arg)
    /\ registered' = IF kind = "on" THEN [registered EXCEPT ![arg] = Append(@, t)]
                                    ELSE registered
    /\ last' = [kind |-> kind, target |-> t, arg |-> arg]
    /\ result' = r.result
    /\ nApps' = nApps + 1
    /\ UNCHANGED invoked

Process(t, e) ==
    /\ nApps < MaxApps
    /\ Apply(process_decorator(St, t, e), "process", t, e)

ListenTo(t, r, fl) ==
    /\ nApps < MaxApps
    /\ Apply(listen_to_decorator(St, t, r, flags_of(fl)), "listen_to", t,
             [regex |-> r, flags |-> fl])

RespondTo(t, r, fl) ==
    /\ nApps < MaxApps
    /\ Apply(respond_to_decorator(St, t, r, flags_of(fl)), "respond_to", t,
             [regex |-> r, flags |-> fl])

On(t, e) ==
    /\ nApps < MaxApps
    /\ Apply(on_decorator(St, t, e), "on", t, e)

RequiredSettings(t, a) ==
    /\ nApps < MaxApps
    /\ Apply(required_settings_decorator(St, t, a), "required_settings", t, a)

Emit(e) ==
    /\ invoked' = emit(ee, e)
    /\ UNCHANGED <<own, heap, ee, contrib, registered, last, result, nApps>>

Next ==
    \/ \E t \in Targets, e \in EventTypes : Process(t, e)
    \/ \E t \in Targets, r \in Regexes, fl \in FlagArgs : ListenTo(t, r, fl)
    \/ \E t \in Targets, r \in Regexes, fl \in FlagArgs : RespondTo(t, r, fl)
    \/ \E t \in Targets, e \in EventNames : On(t, e)
    \/ \E t \in Targets, a \in SettingsArgs : RequiredSettings(t, a)
    \/ \E e \in EventNames : Emit(e)

Spec == Init /\ [][Next]_vars

(***************************************************************************)
(* Properties.                                                             *)
(***************************************************************************)

\* What reading t.metadata gives: the Metadata found by attribute lookup, and
\* the empty lists when t has no metadata.
metadata(t) == heap[getattr_metadata(own, t)]

Decorated(t) == own[t] # NoAttr

Compiled(r, fl) == [pattern |-> r, flags |-> fl \cup {"UNICODE"}]

\* The step is an application of the decorator of this kind to target t,
\* recorded in last'.
Applied(kind, t) == nApps' = nApps + 1 /\ last'.kind = kind /\ last'.target = t

\* C1: applying process(e) to a target leaves its plugin_actions.process equal
\* to the previous contents (empty without metadata) followed by e: order kept,
\* one entry more, also when e is already listed.
C1_ProcessAppends ==
    [][\A t \in Targets :
          Applied("process", t) =>
              /\ metadata(t)'.plugin_actions.process =
                     Append(metadata(t).plugin_actions.process, last'.arg)
              /\ Decorated(t)']_vars

C1_Witness ==
    /\ last = [kind |-> "process", target |-> "f", arg |-> "message"]
    /\ own["f"] = "f"
    /\ heap["f"].plugin_actions.process = <<"message", "message">>

GivenFlags(fl) == IF fl = <<>> THEN {"IGNORECASE"} ELSE fl[1]

Balanced(r) ==
    /\ \A i \in 1..Len(r) :
           Cardinality({j \in 1..i : r[j] = ")"}) <= Cardinality({j \in 1..i : r[j] = "("})
    /\ Cardinality({j \in 1..Len(r) : r[j] = ")"}) =
           Cardinality({j \in 1..Len(r) : r[j] = "("})

AppendsCompiled(old, new, r, fl) ==
    /\ Len(new) = Len(old) + 1
    /\ SubSeq(new, 1, Len(old)) = old
    /\ new[Len(new)].pattern = r
    /\ new[Len(new)].flags \ {"UNICODE"} = GivenFlags(fl)

\* C2: for a valid regex r, applying listen_to(r, flags) appends exactly one
\* compiled pattern to the end of the target's listen_to, with source text r
\* and the given flags (IGNORECASE when omitted); respond_to likewise on
\* respond_to.
C2_PatternAppended ==
    [][\A t \in Targets :
          /\ (Applied("listen_to", t) /\ Balanced(last'.arg.regex)) =>
                 AppendsCompiled(metadata(t).plugin_actions.listen_to,
                                 metadata(t)'.plugin_actions.listen_to,
                                 last'.arg.regex, last'.arg.flags)
          /\ (Applied("respond_to", t) /\ Balanced(last'.arg.regex)) =>
                 AppendsCompiled(metadata(t).plugin_actions.respond_to,
                                 metadata(t)'.plugin_actions.respond_to,
                                 last'.arg.regex, last'.arg.flags)]_vars

C2_Witness ==
    /\ last.kind = "listen_to" /\ last.target = "f"
    /\ heap["f"].plugin_actions.listen_to =
           << Compiled(<<"h", "i">>, {"IGNORECASE"}),
              Compiled(<<"(", "b", ")">>, {"MULTILINE"}) >>
    /\ own["f"] = "f"

\* C3: no two distinct targets ever hold the same Metadata instance.
C3_NoSharedMetadata ==
    \A t, u \in Targets :
        (t # u /\ Decorated(t) /\ Decorated(u)) => own[t] # own[u]

\* The list a required_settings argument stands for.
Names(a) == IF a.type = "list" THEN a.value ELSE <<a.value>>

C5_InvalidPatternRaises ==
    [][\A t \in Targets :
          ((Applied("listen_to", t) \/ Applied("respond_to", t))
               /\ ~Balanced(last'.arg.regex)) =>
              /\ result'.outcome = "raised"
              /\ metadata(t)' = metadata(t)
              /\ heap' = heap]_vars

C5_Witness ==
    /\ last.kind = "listen_to" /\ last.target = "f" /\ last.arg.regex = <<"(">>
    /\ result.outcome = "raised"
    /\ heap["f"].plugin_actions.process = <<"hello">>
    /\ heap["f"].plugin_actions.listen_to = <<>>

RECURSIVE FirstOccurrences(_)
FirstOccurrences(s) ==
    IF s = <<>> THEN <<>>
    ELSE LET front == FirstOccurrences(SubSeq(s, 1, Len(s) - 1))
             x     == s[Len(s)]
         IN  IF x \in Range(front) THEN front ELSE Append(front, x)

\* C6: the listeners of an event stand in the order in which on() was
\* applied for it (f before g when on(name) was applied to f, then to g),
\* and emitting the event calls them in that order.
C6_RegistrationOrder ==
    [][/\ \A e \in EventNames : ee'[e] = FirstOccurrences(registered'[e])
       /\ \A e \in EventNames :
              Emit(e) => invoked' = FirstOccurrences(registered[e])]_vars

C6_Witness ==
    /\ registered["shutdown"] = <<"f", "g">>
    /\ ee["shutdown"] = <<"f", "g">>
    /\ invoked = <<"f", "g">>

OtherListsKept(t, kind) ==
    /\ kind # "process" =>
           metadata(t)'.plugin_actions.process = metadata(t).plugin_actions.process
    /\ kind # "listen_to" =>
           metadata(t)'.plugin_actions.listen_to = metadata(t).plugin_actions.listen_to
    /\ kind # "respond_to" =>
           metadata(t)'.plugin_actions.respond_to = metadata(t).plugin_actions.respond_to
    /\ kind # "required_settings" =>
           metadata(t)'.required_settings = metadata(t).required_settings

MetadataKinds == {"process", "listen_to", "respond_to", "required_settings"}

\* C7: each metadata decorator changes only its own list of the target and
\* leaves the target's other three lists as they were.
C7_OnlyOwnListChanges ==
    [][\A kind \in MetadataKinds, t \in Targets :
          Applied(kind, t) => OtherListsKept(t, kind)]_vars

C7_Witness ==
    /\ heap["f"].plugin_actions.listen_to = << Compiled(<<"(", "b", ")">>, {"IGNORECASE"}) >>
    /\ heap["f"].plugin_actions.respond_to = << Compiled(<<"h", "i">>, {"IGNORECASE"}) >>
    /\ heap["f"].plugin_actions.process = <<>>
    /\ heap["f"].required_settings = <<>>

\* C8: each list of a decorated target's Metadata is exactly what the
\* applications of that list's decorator to this target contributed, in
\* application order.
C8_ListsAreOwnContributions ==
    \A t \in Targets : Decorated(t) => metadata(t) = contrib[t]

IsPrefix(s, t) == Len(s) <= Len(t) /\ SubSeq(t, 1, Len(s)) = s

\* C9 (as stated): every application of on(name) adds one entry for name.
C9_EveryApplicationAddsAnEntry ==
    \A e \in EventNames : Len(ee[e]) = Len(registered[e])

\* C9 (amended): the registry only grows and no step removes or moves an
\* entry; an event's listeners are exactly the callables ever registered for
\* it, one entry for each distinct callable.
C9_RegistryOnlyGrows ==
    [][\A e \in EventNames :
          /\ IsPrefix(ee[e], ee'[e])
          /\ Range(ee'[e]) = Range(registered'[e])
          /\ Len(ee'[e]) = Cardinality(Range(registered'[e]))]_vars

C9_Witness ==
    /\ registered["shutdown"] = <<"f", "f">>
    /\ ee["shutdown"] = <<"f">>
    /\ ee["startup"] = <<>>

\* C10: on(name) returns its target, attaches no metadata and changes no
\* Metadata; the metadata decorators return their target and leave the event
\* registry unchanged.
C10_DisjointState ==
    [][\A t \in Targets :
          /\ Applied("on", t) =>
                 own' = own /\ heap' = heap /\ result' = Returned(t)
          /\ \A kind \in MetadataKinds :
                 Applied(kind, t) =>
                     /\ ee' = ee
                     /\ result'.outcome = "returned" => result'.value = t]_vars

C10_Witness ==
    /\ last = [kind |-> "on", target |-> "f", arg |-> "shutdown"]
    /\ ee["shutdown"] = <<"f">>
    /\ own["f"] = NoAttr
    /\ own["g"] = "g"
    /\ heap["g"].plugin_actions.process = <<"message">>

====
